---------------------------- MODULE Spec2Model ----------------------------
(***************************************************************************)
(* A state-machine model of the NetworkGraph component (the force-directed *)
(* graph view): its two React effects (scene initialisation with its       *)
(* cleanup, and the resize observer), the d3 force simulation's timer, the *)
(* drag, click and zoom handlers it installs, and the caller's data it is  *)
(* handed.  Library behaviour (React effect scheduling, d3-force, d3-drag, *)
(* d3-zoom, ResizeObserver, requestAnimationFrame) is modelled at the call *)
(* sites that use it.  The App that renders the component is modelled by   *)
(* its own state: the prediction requests, the sessions list and the       *)
(* selected node.                                                          *)
(***************************************************************************)
EXTENDS Integers, Sequences, FiniteSets, TLC

VARIABLES
  variant,          \* which of the two sources of the component is running
  phase,            \* "unmounted" | "mounted" | "crashed" (uncaught effect error)
  props,            \* the props of the last render: [graph, dark, cb]
  container,        \* containerRef.current client size <<w, h>>
  sims,             \* the simulation objects, by slot (a free slot holds NoSimRec)
  nodeObjs,         \* heap of node objects (caller's and working copies)
  linkObjs,         \* heap of link objects (caller's and working copies)
  simulationRef,    \* simulationRef.current: 0 (null) or an index of sims
  cleanupSim,       \* the simulation the registered init cleanup stops (0: none)
  svg,              \* the content of the svg element and the tooltip div
  observing,        \* the ResizeObserver is connected
  animationFrameId, \* the resize effect's local: 0 (undefined) or a frame id
  rafQueue,         \* requestAnimationFrame callbacks not yet run: {[id, size, old]}
  drags,            \* drag gestures in progress: {[node, sim, at]} (subject, its
                    \* simulation, event.x/y of the gesture's last event)
  clickLog,         \* the last click since the last render: [target, idx, calls]
  zoomT,            \* svg.__zoom, the zoom behaviour's transform [k, x, y]
  gT,               \* the transform attribute of the root group
  drugs,            \* App: at least two of the drug inputs are non-empty
  loading,          \* App: the loading state
  requests,         \* predictInteractions calls not yet settled: {[q, at]} (q: the
                    \* call's number, at: Date.now() when it was made)
  calls,            \* the number of predictInteractions calls made so far
  sessions,         \* App: the sessions list, newest first: <<[id, result]>> (result:
                    \* the number of the call whose data it holds)
  activeSessionId,  \* App: 0 (null) or a session id
  selectedNode,     \* App: NoNode (null) or a node object [result, i]
  clock             \* Date.now()

vars == <<variant, phase, props, container, sims, nodeObjs, linkObjs,
          simulationRef, cleanupSim, svg, observing, animationFrameId,
          rafQueue, drags, clickLog, zoomT, gT,
          drugs, loading, requests, calls, sessions, activeSessionId,
          selectedNode, clock>>

\* the state of the App that renders the component
appVars == <<drugs, loading, requests, calls, sessions, activeSessionId,
             selectedNode, clock>>

\* the state of the NetworkGraph component and of what it draws
graphVars == <<variant, phase, props, container, sims, nodeObjs, linkObjs,
               simulationRef, cleanupSim, svg, observing, animationFrameId,
               rafQueue, drags, clickLog, zoomT, gT>>

zoomVars == <<zoomT, gT>>

-----------------------------------------------------------------------------
(* Bounds of the model *)

\* simulations that may be alive (running, or still reachable) at once
MaxSims == 2
\* concurrent drag gestures (touch pointers)
MaxDrags == 2

-----------------------------------------------------------------------------
(* Inputs: the graphs a caller hands to the component *)

GraphNames == {"init", "pair", "empty", "bad", "orphan"}

Node(id, type, hasVal, val) == [id |-> id, type |-> type, hasVal |-> hasVal, val |-> val]
Link(s, t, type) == [source |-> s, target |-> t, type |-> type]

\* INITIAL_NODES / INITIAL_LINKS of the App, and results of the service
INITIAL_NODES == << Node("1", "DRUG", TRUE, 5),
                    Node("2", "PROTEIN", TRUE, 3),
                    Node("3", "SIDE_EFFECT", TRUE, 4) >>
INITIAL_LINKS == << Link("1", "2", "encodes"), Link("2", "3", "predicts") >>

GraphNodes(g) ==
  CASE g = "init"   -> INITIAL_NODES
    [] g = "pair"   -> << Node("a", "DRUG", TRUE, 0), Node("b", "PROTEIN", FALSE, 0) >>
    [] g = "bad"    -> << Node("a", "DRUG", TRUE, 2), Node("b", "SIDE_EFFECT", FALSE, 0) >>
    [] OTHER        -> << >>

GraphLinks(g) ==
  CASE g = "init"   -> INITIAL_LINKS
    [] g = "pair"   -> << Link("a", "b", "targets") >>
    [] g = "bad"    -> << Link("a", "b", "targets"), Link("b", "zz", "causes") >>
    [] g = "orphan" -> << Link("a", "b", "targets") >>
    [] OTHER        -> << >>

Props(g, dark, cb) == [graph |-> g, dark |-> dark, cb |-> cb]

\* the renders the model draws from: the App's initial graph in both themes,
\* a service result, an empty result, a result with a dangling link, and an
\* empty node list that comes with a link
PropsSet == { Props("init", TRUE, "cb"), Props("init", FALSE, "cb"),
              Props("pair", TRUE, "cb"), Props("empty", TRUE, "cb"),
              Props("bad", TRUE, "cb"), Props("orphan", TRUE, "cb") }

Sizes == { <<1200, 400>> }

-----------------------------------------------------------------------------
(* Object references *)

NullRef == [own |-> "none", sim |-> 0, g |-> "empty", i |-> 0]
CallerNode(g, i) == [own |-> "caller", sim |-> 0, g |-> g, i |-> i]
CallerLink(g, i) == [own |-> "caller", sim |-> 0, g |-> g, i |-> i]
CopyRef(s, g, i) == [own |-> "copy", sim |-> s, g |-> g, i |-> i]

CallerNodeRefs == { CallerNode(g, i) : g \in GraphNames, i \in 1..3 } \cap
                  UNION { { CallerNode(g, i) : i \in 1..Len(GraphNodes(g)) } : g \in GraphNames }
CallerLinkRefs == UNION { { CallerLink(g, i) : i \in 1..Len(GraphLinks(g)) } : g \in GraphNames }

\* the immutable fields of the object behind a reference
NodeData(r) == GraphNodes(r.g)[r.i]
LinkData(r) == GraphLinks(r.g)[r.i]

\* a node object as the caller built it: no x, y, vx, vy, index, fx, fy
FreshNodeState == [pos |-> << >>, pin |-> << >>]
\* a link endpoint holding the id string the caller wrote
IdEnd(id) == [resolved |-> FALSE, id |-> id, ref |-> NullRef]
NodeEnd(r) == [resolved |-> TRUE, id |-> NodeData(r).id, ref |-> r]
FreshLinkState(r) == [source |-> IdEnd(LinkData(r).source), target |-> IdEnd(LinkData(r).target)]


-----------------------------------------------------------------------------
(* d3-force: the simulation object *)

\* alpha is kept in tenths: forceSimulation starts at alpha 1
AlphaStart == 10
\* the warm value of alpha(0.3) and alphaTarget(0.3)
AlphaWarm == 3
\* one step of the cooling moves alpha this far toward alphaTarget
AlphaStep == 5
\* the timer stops once alpha is below alphaMin
AlphaMin == 1

Max(a, b) == IF a >= b THEN a ELSE b
Min(a, b) == IF a <= b THEN a ELSE b
Range(f) == { f[i] : i \in DOMAIN f }

\* (for comparison: a tick that leaves alpha as it is)
NoDecay(alpha, target) == alpha

\* simulation.tick(): alpha += (alphaTarget - alpha) * alphaDecay
Decay(alpha, target) == IF alpha > target THEN Max(target, alpha - AlphaStep) ELSE target

\* initializeNodes: the placement given to node number i that has no position
InitialPos(i) == <<10 * i, 10 * i>>

\* a position after one tick: a pinned node is held at its pin
TickPos(st) == IF st.pin # << >> THEN st.pin ELSE st.pos

\* forceCenter(width / 2, height / 2)
ForceCenter(size) == <<size[1] \div 2, size[2] \div 2>>

NoSim == 0

-----------------------------------------------------------------------------
(* The working copies of the init effect *)

\* (for comparison: the caller's own objects handed on without the spread)
AliasNodes(s, g) == [i \in 1..Len(GraphNodes(g)) |-> CallerNode(g, i)]
\* nodes.map(d => ({ ...d })): one new object per caller node
CopyNodes(s, g) == [i \in 1..Len(GraphNodes(g)) |-> CopyRef(s, g, i)]

\* links.map(d => ({ ...d })): one new object per caller link
CopyLinks(s, g) == [i \in 1..Len(GraphLinks(g)) |-> CopyRef(s, g, i)]

\* the heap after the spread: each new object starts with its original's fields
SpreadNodes(heap, refs) ==
  [r \in DOMAIN heap \cup Range(refs) |->
     IF r \in DOMAIN heap THEN heap[r] ELSE heap[CallerNode(r.g, r.i)]]
SpreadLinks(heap, refs) ==
  [r \in DOMAIN heap \cup Range(refs) |->
     IF r \in DOMAIN heap THEN heap[r] ELSE heap[CallerLink(r.g, r.i)]]

\* forceSimulation(nodesData) -> initializeNodes(): index, x, y, vx, vy are
\* written into every node object it was given
PlaceNodes(heap, refs) ==
  [r \in DOMAIN heap |->
     IF \E i \in DOMAIN refs : refs[i] = r
       THEN LET i == CHOOSE j \in DOMAIN refs : refs[j] = r
                st == heap[r]
            IN [st EXCEPT !.pos = IF st.pin # << >> THEN st.pin
                                  ELSE IF st.pos = << >> THEN InitialPos(i) ELSE st.pos]
       ELSE heap[r]]

\* forceLink(...).id(d => d.id): find(nodeById, nodeId) succeeds iff the id is a node's
LinkFound(nodeRefs, id) == \E i \in DOMAIN nodeRefs : NodeData(nodeRefs[i]).id = id

\* nodeById.get(id): the map keeps the last node that has the id
FindNode(nodeRefs, id) ==
  LET hits == { i \in DOMAIN nodeRefs : NodeData(nodeRefs[i]).id = id }
  IN nodeRefs[CHOOSE i \in hits : \A j \in hits : j <= i]

\* one endpoint of forceLink's initialize(): a string is replaced by its node
ResolveEnd(nodeRefs, e) == IF e.resolved THEN e ELSE NodeEnd(FindNode(nodeRefs, e.id))
EndOk(nodeRefs, e) == e.resolved \/ LinkFound(nodeRefs, e.id)

\* (for comparison: an initialize() that leaves an endpoint it cannot find
\* unresolved and goes on, never throwing)
RECURSIVE ResolveFromLax(_, _, _, _)
ResolveFromLax(heap, linkRefs, nodeRefs, k) ==
  IF k > Len(linkRefs) THEN [heap |-> heap, thrown |-> FALSE]
  ELSE LET r  == linkRefs[k]
           l  == heap[r]
           h1 == IF EndOk(nodeRefs, l.source)
                   THEN [heap EXCEPT ![r].source = ResolveEnd(nodeRefs, l.source)]
                   ELSE heap
           h2 == IF EndOk(nodeRefs, l.target)
                   THEN [h1 EXCEPT ![r].target = ResolveEnd(nodeRefs, l.target)]
                   ELSE h1
       IN ResolveFromLax(h2, linkRefs, nodeRefs, k + 1)

\* forceLink initialize(): links are resolved in order, source before target;
\* the first id that is no node's throws and leaves the rest as they were
RECURSIVE ResolveFrom(_, _, _, _)
ResolveFrom(heap, linkRefs, nodeRefs, k) ==
  IF k > Len(linkRefs) THEN [heap |-> heap, thrown |-> FALSE]
  ELSE LET r == linkRefs[k]
           l == heap[r]
       IN IF ~EndOk(nodeRefs, l.source) THEN [heap |-> heap, thrown |-> TRUE]
          ELSE LET h1 == [heap EXCEPT ![r].source = ResolveEnd(nodeRefs, l.source)]
               IN IF ~EndOk(nodeRefs, l.target) THEN [heap |-> h1, thrown |-> TRUE]
                  ELSE ResolveFrom([h1 EXCEPT ![r].target = ResolveEnd(nodeRefs, l.target)],
                                   linkRefs, nodeRefs, k + 1)


-----------------------------------------------------------------------------
(* The render surface *)

\* selectedNode === null
NoNode == [result |-> 0, i |-> 0]

\* the identity transform (scale in hundredths)
Identity == [k |-> 100, x |-> 0, y |-> 0]

\* the attribute values of the elements; lengths and opacities are kept in
\* tenths, and a transition is represented by the value it ends at

\* d.val ? d.val * 3 + 8 : 10
Radius(n) == IF n.hasVal /\ n.val # 0 THEN n.val * 3 + 8 ELSE 10
BaseR(n) == 10 * Radius(n)
\* (d.val ? d.val * 3 + 8 : 10) * 1.3
HoverR(n) == 13 * Radius(n)

\* the stroke of the node group, of a hovered node, and of the link group
NodeStroke(dark) == IF dark THEN "#fff" ELSE "#f8fafc"
HoverStroke(dark) == IF dark THEN "#fff" ELSE "#0f172a"
LinkColor(dark) == IF dark THEN "#64748b" ELSE "#94a3b8"

\* the tooltip div as it is appended: opacity-0, top 0px, left 0px (box: its
\* rendered size, ptr and size: the pointer and container of the last mousemove
\* since the pointer entered the hovered node)
NoTip == [opacity |-> 0, left |-> 0, top |-> 0, box |-> << >>, ptr |-> << >>, size |-> << >>]

\* the svg element as React renders it: no children, no listeners (over: the
\* circle the pointer is over, 0 when none)
EmptySvg ==
  [scene |-> NoSim, graph |-> "empty", dark |-> TRUE, viewBox |-> << >>,
   hasG |-> FALSE, tooltip |-> FALSE, clickCb |-> "none", nodeCb |-> "none",
   zoomOn |-> FALSE, positioned |-> FALSE, over |-> 0, tip |-> NoTip,
   circles |-> << >>, lines |-> << >>, linkLabels |-> << >>, labels |-> << >>]

\* (for comparison: the previous scene's elements left in the svg)
NotCleared(d) == d

\* selectAll("*").remove() and selectAll(".graph-tooltip").remove()
Cleared(d) ==
  [d EXCEPT !.scene = NoSim, !.hasG = FALSE, !.tooltip = FALSE, !.nodeCb = "none",
            !.positioned = FALSE, !.over = 0, !.tip = NoTip,
            !.circles = << >>, !.lines = << >>, !.linkLabels = << >>, !.labels = << >>]

\* the part of the init effect that runs before the simulation is set up:
\* viewBox, background click listener, root group, tooltip div, zoom behaviour
Prepared(d, p, size) ==
  [Cleared(d) EXCEPT !.viewBox = size, !.clickCb = p.cb, !.hasG = TRUE,
                     !.tooltip = (variant = "themed"), !.zoomOn = TRUE]

\* the joins into the new groups: one line and one text per link datum, one
\* circle and one text per node datum, each bound to its datum, added to what
\* the svg holds; the handlers close over nodes, onNodeClick and isDarkMode of
\* this render.  A circle has no stroke attribute of its own ("inherit": the
\* node group's stroke and stroke-width 1.5 apply); the lines take the link
\* group's stroke and stroke-opacity 0.4; the link labels have class opacity-0
Joined(d, s, p, nodeRefs, linkRefs) ==
  [d EXCEPT !.scene = s, !.graph = p.graph, !.dark = p.dark, !.nodeCb = p.cb,
            !.lines = @ \o [i \in DOMAIN linkRefs |->
                              [data |-> linkRefs[i], stroke |-> LinkColor(p.dark),
                               opacity |-> 4, width |-> 15]],
            !.linkLabels = @ \o [i \in DOMAIN linkRefs |->
                                   [data |-> linkRefs[i], text |-> LinkData(linkRefs[i]).type,
                                    opacity |-> 0]],
            !.circles = @ \o [i \in DOMAIN nodeRefs |->
                                [data |-> nodeRefs[i], r |-> BaseR(NodeData(nodeRefs[i])),
                                 stroke |-> "inherit", sw |-> 15]],
            !.labels = @ \o [i \in DOMAIN nodeRefs |-> [data |-> nodeRefs[i]]]]

SimIds == 1..MaxSims

\* a slot that holds no simulation
NoSimRec ==
  [exists |-> FALSE, running |-> FALSE, alpha |-> 0, alphaTarget |-> 0,
   nodes |-> << >>, links |-> << >>, center |-> << >>,
   tickOn |-> FALSE, tornDown |-> FALSE, lateTick |-> FALSE]

\* d3.forceSimulation(nodesData): alpha 1, alphaTarget 0, timer started
NewSim(nodeRefs, linkRefs, size) ==
  [exists |-> TRUE, running |-> TRUE, alpha |-> AlphaStart, alphaTarget |-> 0,
   nodes |-> nodeRefs, links |-> linkRefs, center |-> ForceCenter(size),
   tickOn |-> FALSE, tornDown |-> FALSE, lateTick |-> FALSE]

FreeSlots(simsIn) == { s \in SimIds : ~simsIn[s].exists }
NewSlot(simsIn) == CHOOSE s \in FreeSlots(simsIn) : \A t \in FreeSlots(simsIn) : s <= t

\* (for comparison: an init effect without its guard)
InitNeverSkipped(p) == FALSE

\* the guard of the init effect (the refs are set whenever an effect runs)
InitSkipped(p) == Len(GraphNodes(p.graph)) = 0

\* The body of the init effect for props p, run on the simulations simsIn
\* (the previous cleanup has already run), the svg element dom and the ref
\* value ref.  thrown: forceLink's initialize() threw "node not found" out of
\* the effect, after the simulation had been created and before it was stored.
InitEffect(p, simsIn, dom, ref, g0) ==
  LET s        == NewSlot(simsIn)
      nodeRefs == CopyNodes(s, p.graph)
      linkRefs == CopyLinks(s, p.graph)
      nHeap    == PlaceNodes(SpreadNodes(nodeObjs, nodeRefs), nodeRefs)
      res      == ResolveFrom(SpreadLinks(linkObjs, linkRefs), linkRefs, nodeRefs, 1)
      sim      == NewSim(nodeRefs, linkRefs, container)
      prep     == Prepared(dom, p, container)
  IN IF InitSkipped(p)
       THEN [sims |-> simsIn, nodeObjs |-> nodeObjs, linkObjs |-> linkObjs,
             simulationRef |-> ref, cleanupSim |-> NoSim, svg |-> dom,
             gT |-> g0, thrown |-> FALSE]
     ELSE IF res.thrown
       THEN [sims |-> [simsIn EXCEPT ![s] = sim], nodeObjs |-> nHeap,
             linkObjs |-> res.heap,
             simulationRef |-> ref, cleanupSim |-> NoSim, svg |-> prep,
             gT |-> << >>, thrown |-> TRUE]
     ELSE [sims |-> [simsIn EXCEPT ![s] = [sim EXCEPT !.tickOn = TRUE]],
           nodeObjs |-> nHeap, linkObjs |-> res.heap,
           simulationRef |-> s, cleanupSim |-> s,
           svg |-> Joined(prep, s, p, nodeRefs, linkRefs),
           gT |-> << >>, thrown |-> FALSE]

\* the cleanup the init effect returned: simulation.stop()
InitCleanup(simsIn) ==
  IF cleanupSim = NoSim THEN simsIn
  ELSE [simsIn EXCEPT ![cleanupSim].running = FALSE, ![cleanupSim].tornDown = TRUE]

\* the resize effect's cleanup: if (animationFrameId) cancelAnimationFrame(animationFrameId)
CancelFrame(q, id) == { f \in q : f.id # id }

\* bookkeeping: the callbacks still queued when a teardown ran (cl: the cleanup
\* that ran, NoSim when none was registered) were queued before it
Aged(q, cl) == IF cl = NoSim THEN q ELSE { [f EXCEPT !.old = TRUE] : f \in q }

NoClick == [target |-> "none", idx |-> 0, calls |-> << >>]

-----------------------------------------------------------------------------
(* Unreachable objects *)

\* A simulation can still act or be acted on while its timer runs, while
\* simulationRef or the registered cleanup names it, or while its elements (and
\* their handlers) are in the svg.  Any other simulation is stopped for good:
\* nothing can restart it (a gesture still in progress on one of its nodes only
\* writes that node's pin and lowers alphaTarget).  It, its working copies and
\* such gestures are dropped from the state.
Reachable(simsIn, ref, cl, dom) ==
  { s \in SimIds : /\ simsIn[s].exists
                   /\ \/ simsIn[s].running
                      \/ s = ref
                      \/ s = cl
                      \/ s = dom.scene }

KeptSims(simsIn, keep) == [s \in SimIds |-> IF s \in keep THEN simsIn[s] ELSE NoSimRec]
KeptObjs(heap, keep) ==
  IF \A q \in DOMAIN heap : q.own = "caller" \/ q.sim \in keep THEN heap
  ELSE [r \in { q \in DOMAIN heap : q.own = "caller" \/ q.sim \in keep } |-> heap[r]]


\* the new values of the object graph, with what became unreachable dropped
Store(simsN, nodesN, linksN, ref, cl, dom, dr) ==
  \E keep \in { Reachable(simsN, ref, cl, dom) } :
     /\ sims' = KeptSims(simsN, keep)
     /\ nodeObjs' = KeptObjs(nodesN, keep)
     /\ linkObjs' = KeptObjs(linksN, keep)
     /\ simulationRef' = ref
     /\ cleanupSim' = cl
     /\ svg' = dom
     /\ drags' = { d \in dr : d.sim \in keep }

-----------------------------------------------------------------------------
(* Initial state: the component has not been mounted *)

InitCommon ==
  /\ phase = "unmounted"
  /\ props = Props("init", TRUE, "cb")
  /\ container = <<800, 600>>
  /\ sims = [s \in SimIds |-> NoSimRec]
  /\ nodeObjs = [r \in CallerNodeRefs |-> FreshNodeState]
  /\ linkObjs = [r \in CallerLinkRefs |-> FreshLinkState(r)]
  /\ simulationRef = NoSim
  /\ cleanupSim = NoSim
  /\ svg = EmptySvg
  /\ observing = FALSE
  /\ animationFrameId = 0
  /\ rafQueue = {}
  /\ drags = {}
  /\ clickLog = NoClick
  /\ zoomT = Identity
  /\ gT = << >>
  /\ drugs = TRUE
  /\ loading = FALSE
  /\ requests = {}
  /\ calls = 0
  /\ sessions = << >>
  /\ activeSessionId = 0
  /\ selectedNode = NoNode
  /\ clock = 1

\* the component of src/components/NetworkGraph.tsx
InitPlain == variant = "plain" /\ InitCommon

Init == variant = "themed" /\ InitCommon

-----------------------------------------------------------------------------
(* React lifecycle *)

\* First render of a new instance: fresh refs and a fresh svg element, then
\* both effects run (the resize effect connects its observer).  An uncaught
\* throw out of the init effect makes React unmount the tree, which runs the
\* resize effect's cleanup.
Mount(p) ==
  /\ phase = "unmounted"
  /\ variant = "plain" => p.dark
  /\ ~InitSkipped(p) => FreeSlots(sims) # {}
  /\ \E r \in { InitEffect(p, sims, EmptySvg, NoSim, << >>) } :
        /\ Store(r.sims, r.nodeObjs, r.linkObjs, r.simulationRef, r.cleanupSim, r.svg, drags)
        /\ gT' = r.gT
        /\ phase' = IF r.thrown THEN "crashed" ELSE "mounted"
        /\ observing' = ~r.thrown
  /\ props' = p
  /\ animationFrameId' = 0
  /\ rafQueue' = {}
  /\ zoomT' = Identity
  /\ clickLog' = NoClick
  /\ UNCHANGED <<appVars, variant, container>>

\* A render with changed nodes, links, onNodeClick or isDarkMode: the previous
\* cleanup runs, then the init effect; the resize effect (deps []) is not re-run
Rerender(p) ==
  /\ phase = "mounted"
  /\ p # props
  /\ variant = "plain" => p.dark
  /\ ~InitSkipped(p) => FreeSlots(InitCleanup(sims)) # {}
  /\ \E r \in { InitEffect(p, InitCleanup(sims), svg, simulationRef, gT) } :
        /\ Store(r.sims, r.nodeObjs, r.linkObjs, r.simulationRef, r.cleanupSim, r.svg, drags)
        /\ gT' = r.gT
        /\ phase' = IF r.thrown THEN "crashed" ELSE "mounted"
        /\ observing' = ~r.thrown
        /\ rafQueue' = Aged(IF r.thrown THEN CancelFrame(rafQueue, animationFrameId)
                             ELSE rafQueue, cleanupSim)
  /\ props' = p
  /\ clickLog' = NoClick
  /\ UNCHANGED <<appVars, variant, container, animationFrameId, zoomT>>

\* Unmount: both cleanups run; the instance's refs and its DOM are gone
Unmount ==
  /\ phase = "mounted"
  /\ phase' = "unmounted"
  /\ Store(InitCleanup(sims), nodeObjs, linkObjs, NoSim, NoSim, EmptySvg, drags)
  /\ observing' = FALSE
  /\ rafQueue' = Aged(CancelFrame(rafQueue, animationFrameId), cleanupSim)
  /\ animationFrameId' = 0
  /\ zoomT' = Identity
  /\ gT' = << >>
  /\ clickLog' = NoClick
  /\ UNCHANGED <<appVars, variant, props, container>>

-----------------------------------------------------------------------------
(* The simulation's timer *)

\* (for comparison: a tick that releases the pins of the nodes it moves)
TickedFree(heap, sim) ==
  [r \in DOMAIN heap |->
     IF r \in Range(sim.nodes) THEN [heap[r] EXCEPT !.pin = << >>] ELSE heap[r]]

\* the positions one tick leaves in the simulation's node objects
Ticked(heap, sim) ==
  [r \in DOMAIN heap |->
     IF r \in Range(sim.nodes) THEN [heap[r] EXCEPT !.pos = TickPos(heap[r])] ELSE heap[r]]

\* simulation.on("tick", ...): the positions are written into the elements
\* the handler's selections hold (x1..y2, x, y, cx, cy); elements that were
\* removed from the svg are written too, but are no longer part of the surface
TickHandler(d, s) == IF d.scene # s THEN d ELSE [d EXCEPT !.positioned = TRUE]

\* d3-force step(): tick(), dispatch "tick", stop the timer below alphaMin
TimerStep(s) ==
  /\ sims[s].running
  /\ LET a    == Decay(sims[s].alpha, sims[s].alphaTarget)
         heap == Ticked(nodeObjs, sims[s])
         simsN == [sims EXCEPT ![s].alpha = a,
                               ![s].running = ~(a < AlphaMin),
                               ![s].lateTick = @ \/ (sims[s].tickOn /\ sims[s].tornDown)]
     IN Store(simsN, heap, linkObjs, simulationRef, cleanupSim,
              IF sims[s].tickOn THEN TickHandler(svg, s) ELSE svg, drags)
  /\ UNCHANGED <<appVars, variant, phase, props, container, observing, animationFrameId,
                 rafQueue, clickLog, zoomVars>>

-----------------------------------------------------------------------------
(* The resize effect *)

\* requestAnimationFrame returns an id that names no queued callback
FreshId(q) == CHOOSE n \in 1..(Cardinality(q) + 1) :
                /\ \A f \in q : f.id # n
                /\ \A m \in 1..(n - 1) : \E f \in q : f.id = m

\* (for comparison: an observer callback that cancels nothing)
NotPruned(q, cur) == q

\* the ResizeObserver callback: cancel the pending frame, queue a new one
Pruned(q, cur) == CancelFrame(q, cur)

\* The observed box changes (or is first observed) and the observer notifies
ResizeNotify(size) ==
  /\ phase = "mounted"
  /\ observing
  /\ container' = size
  /\ LET q  == Pruned(rafQueue, animationFrameId)
         id == FreshId(q)
     IN /\ rafQueue' = q \cup { [id |-> id, size |-> size, old |-> FALSE] }
        /\ animationFrameId' = id
  /\ UNCHANGED <<appVars, variant, phase, props, sims, nodeObjs, linkObjs, simulationRef,
                 cleanupSim, svg, observing, drags, clickLog, zoomVars>>

\* (for comparison: a frame callback that leaves the simulation alone)
NotReheated(simsIn, ref, size) == simsIn

\* simulationRef.current.force("center", ...); .alpha(0.3).restart()
Reheated(simsIn, ref, size) ==
  IF ref = NoSim THEN simsIn
  ELSE [simsIn EXCEPT ![ref].center = ForceCenter(size),
                      ![ref].alpha = AlphaWarm,
                      ![ref].running = TRUE]

\* A queued frame callback runs
FrameRun(f) ==
  /\ f \in rafQueue
  /\ rafQueue' = rafQueue \ {f}
  /\ Store(Reheated(sims, simulationRef, f.size), nodeObjs, linkObjs, simulationRef,
           cleanupSim, [svg EXCEPT !.viewBox = f.size], drags)
  /\ UNCHANGED <<appVars, variant, phase, props, container, observing, animationFrameId,
                 clickLog, zoomVars>>

-----------------------------------------------------------------------------
(* d3-drag on the node circles *)

Pointers == { <<50, 60>>, <<70, 20>> }

\* event.active: the gestures of this drag behaviour that are in progress
Active(dr, s) == Cardinality({ d \in dr : d.sim = s })

\* dragstarted: if (!event.active) simulation.alphaTarget(0.3).restart()
DragStarted(simsIn, s, active) ==
  IF active = 0 THEN [simsIn EXCEPT ![s].alphaTarget = AlphaWarm, ![s].running = TRUE]
  ELSE simsIn

\* (for comparison: a dragended that cools the simulation whatever else is
\* being dragged)
DragEndedAny(simsIn, s, active) == [simsIn EXCEPT ![s].alphaTarget = 0]

\* dragended: if (!event.active) simulation.alphaTarget(0)
DragEnded(simsIn, s, active) ==
  IF active = 0 THEN [simsIn EXCEPT ![s].alphaTarget = 0] ELSE simsIn

\* (for comparison: a dragended that keeps the pin in both sources)
EndPinKept(pin) == pin

\* (for comparison: a dragended that releases the pin in both sources)
EndPinFreed(pin) == << >>

\* the pin dragended leaves: kept in the themed source, released in the plain one
EndPin(pin) == IF variant = "plain" THEN << >> ELSE pin

\* Pointer down on circle i: the gesture starts, the subject is the circle's datum
DragStart(i) ==
  /\ phase = "mounted"
  /\ i \in DOMAIN svg.circles
  /\ Cardinality(drags) < MaxDrags
  /\ LET r == svg.circles[i].data
         s == svg.scene
     IN /\ \A d \in drags : d.node # r
        /\ Store(DragStarted(sims, s, Active(drags, s)),
                 [nodeObjs EXCEPT ![r].pin = nodeObjs[r].pos], linkObjs,
                 simulationRef, cleanupSim, svg,
                 drags \cup { [node |-> r, sim |-> s, at |-> nodeObjs[r].pos] })
  /\ UNCHANGED <<appVars, variant, phase, props, container, observing, animationFrameId,
                 rafQueue, clickLog, zoomVars>>

\* Pointer move during a gesture (the listeners are on the window)
DragMove(d, pt) ==
  /\ d \in drags
  /\ Store(sims, [nodeObjs EXCEPT ![d.node].pin = pt], linkObjs,
           simulationRef, cleanupSim, svg, (drags \ {d}) \cup { [d EXCEPT !.at = pt] })
  /\ UNCHANGED <<appVars, variant, phase, props, container, observing, animationFrameId,
                 rafQueue, clickLog, zoomVars>>

\* Pointer up: the gesture ends
DragEnd(d) ==
  /\ d \in drags
  /\ Store(DragEnded(sims, d.sim, Active(drags \ {d}, d.sim)),
           [nodeObjs EXCEPT ![d.node].pin = EndPin(@)], linkObjs,
           simulationRef, cleanupSim, svg, drags \ {d})
  /\ UNCHANGED <<appVars, variant, phase, props, container, observing, animationFrameId,
                 rafQueue, clickLog, zoomVars>>

-----------------------------------------------------------------------------
(* Hover handlers of the node circles *)

\* (for comparison: only the links that leave the node)
TouchesSource(heap, lr, d) == heap[lr].source.ref = d

\* l.source === d || l.target === d, on the link object of a line
Touches(heap, lr, d) == heap[lr].source.ref = d \/ heap[lr].target.ref = d

\* rendered sizes <<width, height>> of the tooltip: max-w-[240px], the height
\* that of its label and description
TipSizes == { <<240, 60>>, <<240, 160>> }

\* node.on("mouseover"): the node is enlarged and outlined, the lines and link
\* labels of its links are emphasised and the others dimmed, the tooltip shown
MousedOver(dom, heap, i, box) ==
  LET d == dom.circles[i].data
  IN [dom EXCEPT
        !.over = i,
        !.circles[i] = [@ EXCEPT !.r = HoverR(NodeData(d)),
                                 !.stroke = HoverStroke(dom.dark), !.sw = 30],
        !.lines = [k \in DOMAIN dom.lines |->
                     IF Touches(heap, dom.lines[k].data, d)
                       THEN [dom.lines[k] EXCEPT !.stroke = HoverStroke(dom.dark),
                                                 !.opacity = 10, !.width = 25]
                       ELSE [dom.lines[k] EXCEPT !.stroke = LinkColor(dom.dark),
                                                 !.opacity = 1, !.width = 15]],
        !.linkLabels = [k \in DOMAIN dom.linkLabels |->
                          [dom.linkLabels[k] EXCEPT
                             !.opacity = IF Touches(heap, dom.linkLabels[k].data, d)
                                           THEN 10 ELSE 0]],
        !.tip = IF dom.tooltip THEN [@ EXCEPT !.opacity = 10, !.box = box, !.ptr = << >>]
                ELSE @]

\* (for comparison: pointer + (15, 15) without the flips)
TooltipPosPlain(pt, size) == <<pt[1] + 15, pt[2] + 15>>

\* node.on("mousemove"): left and top for a pointer at pt in a container of
\* the given size
TooltipPos(pt, size) ==
  << IF pt[1] + 15 > size[1] - 250 THEN pt[1] - 255 ELSE pt[1] + 15,
     IF pt[2] + 15 > size[2] - 120 THEN pt[2] - 130 ELSE pt[2] + 15 >>

\* (for comparison: a mouseout that only forgets the hovered node)
MousedOutLazy(dom, i) == [dom EXCEPT !.over = 0]

\* node.on("mouseout"): radius and stroke-width of the node, the style of every
\* line and link label are reset, the tooltip is hidden
MousedOut(dom, i) ==
  [dom EXCEPT
     !.over = 0,
     !.circles[i] = [@ EXCEPT !.r = BaseR(NodeData(dom.circles[i].data)), !.sw = 15],
     !.lines = [k \in DOMAIN dom.lines |->
                  [dom.lines[k] EXCEPT !.stroke = LinkColor(dom.dark),
                                       !.opacity = 4, !.width = 15]],
     !.linkLabels = [k \in DOMAIN dom.linkLabels |-> [dom.linkLabels[k] EXCEPT !.opacity = 0]],
     !.tip = IF dom.tooltip THEN [@ EXCEPT !.opacity = 0] ELSE @]

\* pointer positions relative to the container
HoverPoints == { <<100, 100>>, <<790, 100>>, <<790, 590>> }

\* The pointer enters circle i; the tooltip renders with the size box
MouseOver(i, box) ==
  /\ phase = "mounted"
  /\ i \in DOMAIN svg.circles
  /\ svg.over = 0
  /\ svg' = MousedOver(svg, linkObjs, i, box)
  /\ UNCHANGED <<appVars, variant, phase, props, container, sims, nodeObjs, linkObjs,
                 simulationRef, cleanupSim, observing, animationFrameId,
                 rafQueue, drags, clickLog, zoomVars>>

\* The pointer moves over the hovered circle (the themed source has the listener)
MouseMove(pt) ==
  /\ phase = "mounted"
  /\ svg.over # 0
  /\ svg.tooltip
  /\ pt[1] <= container[1] /\ pt[2] <= container[2]
  /\ svg' = [svg EXCEPT !.tip = [@ EXCEPT !.left = TooltipPos(pt, container)[1],
                                          !.top = TooltipPos(pt, container)[2],
                                          !.ptr = pt, !.size = container]]
  /\ UNCHANGED <<appVars, variant, phase, props, container, sims, nodeObjs, linkObjs,
                 simulationRef, cleanupSim, observing, animationFrameId,
                 rafQueue, drags, clickLog, zoomVars>>

\* The pointer leaves circle i
MouseOut(i) ==
  /\ phase = "mounted"
  /\ svg.over = i
  /\ i \in DOMAIN svg.circles
  /\ svg' = MousedOut(svg, i)
  /\ UNCHANGED <<appVars, variant, phase, props, container, sims, nodeObjs, linkObjs,
                 simulationRef, cleanupSim, observing, animationFrameId,
                 rafQueue, drags, clickLog, zoomVars>>

-----------------------------------------------------------------------------
(* Click dispatch *)

\* nodes.find(n => n.id === d.id) over the caller's array of the render that
\* built the scene: the first element with the id, or nothing
FindOriginal(g, id) ==
  LET hits == { i \in DOMAIN GraphNodes(g) : GraphNodes(g)[i].id = id }
  IN IF hits = {} THEN NullRef
     ELSE CallerNode(g, CHOOSE i \in hits : \A j \in hits : i <= j)

\* (for comparison: the handler passing on the datum it was given, which is the
\* simulation's working copy)
NodeClickCallsDatum(dom, i) ==
  IF dom.nodeCb = "none" THEN << >> ELSE << dom.circles[i].data >>

\* node.on("click"): onNodeClick(originalNode) when a callback was given and
\* the original is found
NodeClickCalls(dom, i) ==
  LET o == FindOriginal(dom.graph, NodeData(dom.circles[i].data).id)
  IN IF dom.nodeCb = "none" \/ o = NullRef THEN << >> ELSE << o >>

\* event.stopPropagation() in the node handler: only a circle's click is stopped
Propagates(tag) == tag # "circle"

\* (for comparison: the svg listener without its test of event.target)
SvgClickCallsAny(dom, tag) ==
  IF dom.clickCb # "none" THEN << NullRef >> ELSE << >>

\* svg.on("click"): onNodeClick(null) when the target is the svg element itself
SvgClickCalls(dom, tag) ==
  IF dom.clickCb # "none" /\ tag = "svg" THEN << NullRef >> ELSE << >>

\* the onNodeClick calls one click event makes: the target's own listener,
\* then, unless propagation was stopped, the svg's
Dispatch(dom, tag, i) ==
  (IF tag = "circle" THEN NodeClickCalls(dom, i) ELSE << >>)
  \o (IF Propagates(tag) THEN SvgClickCalls(dom, tag) ELSE << >>)

ClickTags == {"svg", "line", "circle"}

\* the element under the pointer exists: the svg itself, link line i or circle i
\* (texts and the tooltip have pointer-events: none)
Clickable(dom, tag, i) ==
  CASE tag = "svg"    -> i = 0
    [] tag = "line"   -> i \in DOMAIN dom.lines
    [] tag = "circle" -> i \in DOMAIN dom.circles

\* A click (press and release without movement) on an element of the svg
Click(tag, i) ==
  /\ phase = "mounted"
  /\ Clickable(svg, tag, i)
  /\ clickLog' = [target |-> tag, idx |-> i, calls |-> Dispatch(svg, tag, i)]
  /\ UNCHANGED <<appVars, variant, phase, props, container, sims, nodeObjs, linkObjs,
                 simulationRef, cleanupSim, svg, observing, animationFrameId,
                 rafQueue, drags, zoomVars>>

-----------------------------------------------------------------------------
(* d3-zoom on the svg element; scale factors are kept in hundredths *)

\* scaleExtent([0.1, 8])
ScaleMin == 10
ScaleMax == 800
\* the model follows the translation while it stays within this many units
MaxPan == 30

\* (for comparison: a zoom behaviour without scaleExtent)
ClampFree(k) == k
\* the scale factor constrained to scaleExtent
Clamp(k) == Max(ScaleMin, Min(ScaleMax, k))

\* wheel and pinch factors 2^delta, as <<numerator, denominator>>
Factors == { <<2, 1>>, <<1, 2>>, <<1000, 1>>, <<1, 1000>> }
PanDeltas == { <<30, 0>>, <<-30, -20>>, <<0, 20>> }

\* d3-zoom scale(): the new scale factor for a wheel or pinch by factor f
Scaled(t, f) == Clamp((t.k * f[1]) \div f[2])

\* translate(): the point of the scene under the pointer stays under it; the
\* events drawn have the pointer over the scene's origin, which is at (x, y)
Rescaled(t, k) == [t EXCEPT !.k = k]

InPan(t) == t.x \in -MaxPan..MaxPan /\ t.y \in -MaxPan..MaxPan

\* the "zoom" listener: g.attr("transform", event.transform)
ZoomEvent(t) ==
  /\ zoomT' = t
  /\ gT' = << t >>
  /\ UNCHANGED <<appVars, variant, phase, props, container, sims, nodeObjs, linkObjs,
                 simulationRef, cleanupSim, svg, observing, animationFrameId,
                 rafQueue, drags, clickLog>>

\* A wheel or pinch event over the svg (a wheel that leaves the scale as it is
\* is ignored by d3-zoom)
Wheel(f) ==
  /\ phase = "mounted"
  /\ svg.zoomOn
  /\ Scaled(zoomT, f) # zoomT.k
  /\ InPan(Rescaled(zoomT, Scaled(zoomT, f)))
  /\ ZoomEvent(Rescaled(zoomT, Scaled(zoomT, f)))

\* A pointer drag that starts on the background: the transform is translated
Pan(d) ==
  /\ phase = "mounted"
  /\ svg.zoomOn
  /\ InPan([zoomT EXCEPT !.x = @ + d[1], !.y = @ + d[2]])
  /\ ZoomEvent([zoomT EXCEPT !.x = @ + d[1], !.y = @ + d[2]])

\* A double click on the svg background: two clicks, each dispatched to the
\* svg's click listener, then a dblclick event, which has no listener left
\* (zoom's own was removed by .on("dblclick.zoom", null)); the zoom transform
\* and the root group's attribute stay as they are
DblClick ==
  /\ phase = "mounted"
  /\ clickLog' = [target |-> "dblclick", idx |-> 0,
                  calls |-> SvgClickCalls(svg, "svg") \o SvgClickCalls(svg, "svg")]
  /\ UNCHANGED <<appVars, variant, phase, props, container, sims, nodeObjs, linkObjs,
                 simulationRef, cleanupSim, svg, observing, animationFrameId,
                 rafQueue, drags, zoomVars>>

-----------------------------------------------------------------------------
(* The App: predictions, the sessions list and the selected node *)

\* predictInteractions calls a behaviour makes, and how far Date.now() advances
MaxCalls == 3
MaxClock == 3

\* sessions.find(s => s.id === activeSessionId): the first session with the id
ActiveSession(ss, id) ==
  LET hits == { k \in DOMAIN ss : ss[k].id = id }
  IN IF hits = {} THEN << >>
     ELSE << ss[CHOOSE k \in hits : \A j \in hits : k <= j] >>

\* the result whose nodes NetworkGraph is handed: activeSession?.result, or 0
\* for INITIAL_NODES when there is none
Displayed(ss, id) ==
  IF ActiveSession(ss, id) = << >> THEN 0 ELSE ActiveSession(ss, id)[1].result

\* the number of nodes of a result (INITIAL_NODES has three)
NodeCount(res) == IF res = 0 THEN Len(INITIAL_NODES) ELSE 2

\* prev.filter(s => s.id !== id)
RECURSIVE Without(_, _)
Without(ss, id) ==
  IF ss = << >> THEN << >>
  ELSE IF Head(ss).id = id THEN Without(Tail(ss), id)
  ELSE << Head(ss) >> \o Without(Tail(ss), id)


\* handlePredict goes on to call the service: at least two drugs are given
\* (nothing in it looks at loading)
PredictStarts(busy, enough) == enough

\* handlePredict up to its await: setLoading(true), setSelectedNode(null), the call
HandlePredict ==
  /\ IF PredictStarts(loading, drugs)
       THEN /\ loading' = TRUE
            /\ selectedNode' = NoNode
            /\ calls' = calls + 1
            /\ requests' = requests \cup { [q |-> calls + 1, at |-> clock] }
       ELSE UNCHANGED <<loading, selectedNode, calls, requests>>
  /\ UNCHANGED <<graphVars, drugs, sessions, activeSessionId, clock>>

\* A click on Run Prediction, which is disabled while loading or with fewer
\* than two drugs
ClickRun ==
  /\ calls < MaxCalls
  /\ ~(loading \/ ~drugs)
  /\ HandlePredict

\* Enter in a drug input: DrugInput's handleKeyDown calls onEnter
PressEnter ==
  /\ calls < MaxCalls
  /\ HandlePredict

\* The user edits the inputs: two or more are non-empty afterwards, or not
EditDrugs(enough) ==
  /\ drugs # enough
  /\ drugs' = enough
  /\ UNCHANGED <<graphVars, loading, requests, calls, sessions, activeSessionId,
                 selectedNode, clock>>

\* The service call of request r returns data: the new session is put first
\* and made the active one; finally setLoading(false).  A response takes time
\* to arrive, so Date.now() is later than at the call.
Resolve(r) ==
  /\ r \in requests
  /\ clock > r.at
  /\ sessions' = << [id |-> clock, result |-> r.q] >> \o sessions
  /\ activeSessionId' = clock
  /\ loading' = FALSE
  /\ requests' = requests \ {r}
  /\ UNCHANGED <<graphVars, drugs, calls, selectedNode, clock>>

\* The service call of request r throws: setError, finally setLoading(false)
Reject(r) ==
  /\ r \in requests
  /\ loading' = FALSE
  /\ requests' = requests \ {r}
  /\ UNCHANGED <<graphVars, drugs, calls, sessions, activeSessionId, selectedNode, clock>>

\* Time passes
Tick ==
  /\ clock < MaxClock
  /\ clock' = clock + 1
  /\ UNCHANGED <<graphVars, drugs, loading, requests, calls, sessions,
                 activeSessionId, selectedNode>>

\* handleRestoreSession(sessions[k])
RestoreSession(k) ==
  /\ k \in DOMAIN sessions
  /\ activeSessionId' = sessions[k].id
  /\ drugs' = TRUE
  /\ selectedNode' = NoNode
  /\ UNCHANGED <<graphVars, loading, requests, calls, sessions, clock>>

\* handleDeleteSession(e, sessions[k].id)
DeleteSession(k) ==
  /\ k \in DOMAIN sessions
  /\ LET id   == sessions[k].id
         left == Without(sessions, id)
     IN /\ sessions' = left
        /\ activeSessionId' = IF id = activeSessionId
                                THEN (IF left # << >> THEN left[1].id ELSE 0)
                                ELSE activeSessionId
  /\ UNCHANGED <<graphVars, drugs, loading, requests, calls, selectedNode, clock>>

\* handleClearHistory, confirmed
ClearHistory ==
  /\ sessions' = << >>
  /\ activeSessionId' = 0
  /\ UNCHANGED <<graphVars, drugs, loading, requests, calls, selectedNode, clock>>

\* onNodeClick={setSelectedNode}: a click on node i of the graph on display
\* (NetworkGraph passes the element of the nodes it was handed)
SelectNode(i) ==
  /\ i \in 1..NodeCount(Displayed(sessions, activeSessionId))
  /\ selectedNode' = [result |-> Displayed(sessions, activeSessionId), i |-> i]
  /\ UNCHANGED <<graphVars, drugs, loading, requests, calls, sessions,
                 activeSessionId, clock>>

\* a click on the graph's background, or on the overlay's close button
Deselect ==
  /\ selectedNode' = NoNode
  /\ UNCHANGED <<graphVars, drugs, loading, requests, calls, sessions,
                 activeSessionId, clock>>

-----------------------------------------------------------------------------
(* Specifications *)

LifeStep(P) ==
  \/ \E p \in P : Mount(p)
  \/ \E p \in P : Rerender(p)
  \/ Unmount

\* the lifecycle with the simulation timers and the resize observer
Next ==
  \/ LifeStep(PropsSet)
  \/ \E s \in SimIds : TimerStep(s)
  \/ \E size \in Sizes : ResizeNotify(size)
  \/ \E f \in rafQueue : FrameRun(f)

Spec == Init /\ [][Next]_vars

\* renders of a two-node graph, valid and with a dangling link
DragProps == { Props("pair", TRUE, "cb"), Props("pair", FALSE, "cb"), Props("bad", TRUE, "cb") }

\* the lifecycle with the timers, a resize and the drag gestures on the nodes
NextDrag ==
  \/ LifeStep(DragProps)
  \/ \E s \in SimIds : TimerStep(s)
  \/ \E size \in Sizes : ResizeNotify(size)
  \/ \E f \in rafQueue : FrameRun(f)
  \/ \E i \in 1..2 : DragStart(i)
  \/ \E d \in drags, pt \in Pointers : DragMove(d, pt)
  \/ \E d \in drags : DragEnd(d)

SpecDrag == Init /\ [][NextDrag]_vars

\* the lifecycle with the timers and clicks on the elements
NextClick ==
  \/ LifeStep(PropsSet)
  \/ \E s \in SimIds : TimerStep(s)
  \/ \E tag \in ClickTags, i \in 0..3 : Click(tag, i)

SpecClick == Init /\ [][NextClick]_vars

\* the lifecycle with wheel, pinch and pan events and double clicks
NextZoom ==
  \/ LifeStep(PropsSet)
  \/ \E f \in Factors : Wheel(f)
  \/ \E d \in PanDeltas : Pan(d)
  \/ DblClick

SpecZoom == Init /\ [][NextZoom]_vars

\* renders and container sizes for the hover handlers: a service result in
\* the dark theme, the App's graph in the light theme, an empty result; the
\* container shrinks to a phone-sized box
HoverProps == { Props("pair", TRUE, "cb"), Props("init", FALSE, "cb"),
                Props("empty", TRUE, "cb") }
HoverSizes == { <<360, 450>> }

\* the lifecycle with the resize observer and the pointer over the nodes
NextHover ==
  \/ LifeStep(HoverProps)
  \/ \E size \in HoverSizes : ResizeNotify(size)
  \/ \E f \in rafQueue : FrameRun(f)
  \/ \E i \in 1..3, box \in TipSizes : MouseOver(i, box)
  \/ \E pt \in HoverPoints : MouseMove(pt)
  \/ \E i \in 1..3 : MouseOut(i)

SpecHover == Init /\ [][NextHover]_vars

\* renders and container sizes for the resize effect
ResizeProps == { Props("init", TRUE, "cb"), Props("pair", TRUE, "cb"),
                 Props("empty", TRUE, "cb") }
ResizeSizes == { <<1200, 400>>, <<800, 600>> }

\* the lifecycle with the simulation timers and a container that changes
\* between two sizes
NextResize ==
  \/ LifeStep(ResizeProps)
  \/ \E s \in SimIds : TimerStep(s)
  \/ \E size \in ResizeSizes : ResizeNotify(size)
  \/ \E f \in rafQueue : FrameRun(f)

SpecResize == Init /\ [][NextResize]_vars

\* a two-node graph in both themes
PinProps == { Props("pair", TRUE, "cb"), Props("pair", FALSE, "cb") }

\* drag gestures with everything that can happen during one: ticks, resize
\* frames, the pointer entering and leaving nodes, renders
NextPin ==
  \/ LifeStep(PinProps)
  \/ \E s \in SimIds : TimerStep(s)
  \/ \E size \in Sizes : ResizeNotify(size)
  \/ \E f \in rafQueue : FrameRun(f)
  \/ \E i \in 1..2 : DragStart(i)
  \/ \E d \in drags, pt \in Pointers : DragMove(d, pt)
  \/ \E d \in drags : DragEnd(d)
  \/ MouseOver(1, <<240, 60>>)
  \/ MouseOut(1)

SpecPin == Init /\ [][NextPin]_vars

\* renders of the plain source (it has no isDarkMode prop)
PlainProps == { Props("pair", TRUE, "cb"), Props("init", TRUE, "cb") }

\* the plain source with drag gestures, ticks, resize frames and renders
NextPlain ==
  \/ LifeStep(PlainProps)
  \/ \E s \in SimIds : TimerStep(s)
  \/ \E size \in Sizes : ResizeNotify(size)
  \/ \E f \in rafQueue : FrameRun(f)
  \/ \E i \in 1..2 : DragStart(i)
  \/ \E d \in drags, pt \in Pointers : DragMove(d, pt)
  \/ \E d \in drags : DragEnd(d)

SpecPlain == InitPlain /\ [][NextPlain]_vars

\* what can follow a drag in the themed source: ticks, resize frames, the
\* pointer entering and leaving the node, a wheel event, another drag, renders
NextKeep ==
  \/ LifeStep(PinProps)
  \/ \E s \in SimIds : TimerStep(s)
  \/ \E size \in Sizes : ResizeNotify(size)
  \/ \E f \in rafQueue : FrameRun(f)
  \/ DragStart(1)
  \/ \E d \in drags, pt \in Pointers : DragMove(d, pt)
  \/ \E d \in drags : DragEnd(d)
  \/ MouseOver(1, <<240, 60>>)
  \/ MouseOut(1)
  \/ Wheel(<<1000, 1>>)

SpecKeep == Init /\ [][NextKeep]_vars

\* renders for the cooling of the simulation
CoolProps == { Props("pair", TRUE, "cb"), Props("init", FALSE, "cb") }

\* the lifecycle with the timers, a resize and a drag gesture
NextCool ==
  \/ LifeStep(CoolProps)
  \/ \E s \in SimIds : TimerStep(s)
  \/ \E size \in Sizes : ResizeNotify(size)
  \/ \E f \in rafQueue : FrameRun(f)
  \/ DragStart(1)
  \/ \E d \in drags : DragEnd(d)

\* d3-timer calls the step of every running simulation on each animation frame
TimerFair == \A s \in SimIds : WF_vars(TimerStep(s))

SpecCool == Init /\ [][NextCool]_vars /\ TimerFair

\* the App's handlers
NextApp ==
  \/ ClickRun
  \/ PressEnter
  \/ \E b \in BOOLEAN : EditDrugs(b)
  \/ \E r \in requests : Resolve(r)
  \/ \E r \in requests : Reject(r)
  \/ Tick
  \/ \E k \in 1..MaxCalls : RestoreSession(k)
  \/ \E k \in 1..MaxCalls : DeleteSession(k)
  \/ ClearHistory
  \/ \E i \in 1..2 : SelectNode(i)
  \/ Deselect

SpecApp == Init /\ [][NextApp]_vars

-----------------------------------------------------------------------------
(* Properties *)

\* the ids of a graph's nodes, and whether one of its links names another id
NodeIds(g) == { GraphNodes(g)[i].id : i \in DOMAIN GraphNodes(g) }
Dangling(g) ==
  \E i \in DOMAIN GraphLinks(g) :
     GraphLinks(g)[i].source \notin NodeIds(g) \/ GraphLinks(g)[i].target \notin NodeIds(g)

\* the svg holds exactly the elements of graph g: circle and label i are bound
\* to node i, line and link label i to link i, the label's text the link's type
Shows(dom, g) ==
  /\ Len(dom.circles) = Len(GraphNodes(g))
  /\ Len(dom.labels) = Len(GraphNodes(g))
  /\ \A i \in DOMAIN dom.circles :
        /\ NodeData(dom.circles[i].data) = GraphNodes(g)[i]
        /\ dom.labels[i].data = dom.circles[i].data
  /\ Len(dom.lines) = Len(GraphLinks(g))
  /\ Len(dom.linkLabels) = Len(GraphLinks(g))
  /\ \A i \in DOMAIN dom.lines :
        /\ LinkData(dom.lines[i].data) = GraphLinks(g)[i]
        /\ dom.linkLabels[i].data = dom.lines[i].data
        /\ dom.linkLabels[i].text = GraphLinks(g)[i].type

NoElements(dom) ==
  dom.circles = << >> /\ dom.lines = << >> /\ dom.linkLabels = << >> /\ dom.labels = << >>

\* C1 (as stated): once the cleanup of a scene has run, the simulation of that
\* scene never again emits a tick to its tick handler.
C1_NoTickAfterTeardown == \A s \in SimIds : ~sims[s].lateTick

\* C2 (as stated): a teardown (unmount, or the cleanup before a
\* re-initialisation) cancels the pending resize frame callback, so no
\* callback that was queued before a teardown is still queued after it.
C2_NoFrameSurvivesTeardown == \A f \in rafQueue : ~f.old

\* C3 (as stated): at most one simulation has an active timer, and it is the
\* one the most recent successful initialisation created (the one
\* simulationRef holds).
C3_OneActiveSimulation ==
  /\ Cardinality({ s \in SimIds : sims[s].running }) <= 1
  /\ \A s \in SimIds : sims[s].running => s = simulationRef

\* C4 (as stated): while the component is mounted with a valid input, the
\* rendered elements are exactly those of that input, the most recent one.
C4_ShowsLatestInput ==
  (phase = "mounted" /\ ~Dangling(props.graph)) => Shows(svg, props.graph)

\* C4 (amended): while the component is mounted, the rendered elements are
\* exactly those of the most recently supplied input that has at least one
\* node: of the current input when it is valid and has a node, and otherwise
\* (the node set is empty) of the input the last scene was built from, or
\* none when no scene was built.
C4_ShowsLatestNonEmptyInput ==
  phase = "mounted" =>
    /\ (~Dangling(props.graph) /\ GraphNodes(props.graph) # << >>) => Shows(svg, props.graph)
    /\ GraphNodes(props.graph) = << >> => Shows(svg, svg.graph)

\* the App's initial graph rendered by a re-initialisation: three circles, two
\* lines, the labels "encodes" and "predicts"
C4_Witness ==
  /\ phase = "mounted"
  /\ props.graph = "init"
  /\ svg.scene = 2
  /\ Len(svg.circles) = 3
  /\ Len(svg.lines) = 2
  /\ [i \in 1..2 |-> svg.linkLabels[i].text] = << "encodes", "predicts" >>

\* C5: a click on a rendered node invokes onNodeClick exactly once, and the
\* argument is the caller's own object: the element with the clicked node's id
\* of the nodes array the scene was built from (the current input's array
\* whenever that has a node), never the simulation's working copy.
C5_NodeClickPassesOriginal ==
  clickLog.target = "circle" =>
    /\ Len(clickLog.calls) = 1
    /\ clickLog.calls[1] \in CallerNodeRefs
    /\ clickLog.calls[1] # svg.circles[clickLog.idx].data
    /\ clickLog.calls[1].g = svg.circles[clickLog.idx].data.g
    /\ NodeData(clickLog.calls[1]).id = NodeData(svg.circles[clickLog.idx].data).id
    /\ GraphNodes(props.graph) # << >> => clickLog.calls[1].g = props.graph

\* the second node of the App's initial graph was clicked
C5_Witness ==
  /\ clickLog.target = "circle"
  /\ clickLog.idx = 2
  /\ clickLog.calls = << CallerNode("init", 2) >>

\* C6 (as stated): every click with no node under the pointer (the background
\* or a link line) invokes onNodeClick(null) exactly once, and a click on a
\* node never invokes onNodeClick(null).
C6_ClickOffNodeSendsNull ==
  /\ clickLog.target \in {"svg", "line"} => clickLog.calls = << NullRef >>
  /\ clickLog.target = "circle" => NullRef \notin Range(clickLog.calls)

\* C6 (amended): a click whose target is the svg element itself invokes
\* onNodeClick(null) exactly once, provided a scene with at least one node has
\* been initialised in this instance (otherwise no listener exists and nothing
\* is invoked); a click on a link line invokes nothing; a click on a node never
\* invokes onNodeClick(null).
C6_SvgTargetClickSendsNull ==
  /\ clickLog.target = "svg" =>
        clickLog.calls = IF simulationRef # NoSim THEN << NullRef >> ELSE << >>
  /\ clickLog.target = "line" => clickLog.calls = << >>
  /\ clickLog.target = "circle" => NullRef \notin Range(clickLog.calls)

\* the background of a rendered scene was clicked
C6_Witness ==
  /\ clickLog.target = "svg"
  /\ clickLog.calls = << NullRef >>
  /\ svg.circles # << >>

\* C7: no operation writes to a node or link object of the caller: each still
\* has the fields it was built with (no position, no pin, endpoints the id
\* strings).
C7_CallerDataUntouched ==
  /\ \A r \in CallerNodeRefs : nodeObjs[r] = FreshNodeState
  /\ \A r \in CallerLinkRefs : linkObjs[r] = FreshLinkState(r)

\* a working copy is pinned by a drag and a working link has been resolved
C7_Witness ==
  /\ \E r \in DOMAIN nodeObjs : r.own = "copy" /\ nodeObjs[r].pin \in Pointers
  /\ \E l \in DOMAIN linkObjs : l.own = "copy" /\ linkObjs[l].target.resolved

\* C8: a run of the init effect with an empty node set (on mount or after a
\* change of props) leaves the svg and simulationRef as they were before it
\* (empty and null in a new instance), and creates no simulation.
C8_EmptyInitIsNoOp ==
  [][ ( /\ phase' = "mounted"
        /\ (phase # "mounted" \/ props' # props)
        /\ GraphNodes(props'.graph) = << >> )
      => ( /\ svg' = (IF phase = "mounted" THEN svg ELSE EmptySvg)
           /\ simulationRef' = (IF phase = "mounted" THEN simulationRef ELSE NoSim)
           /\ gT' = (IF phase = "mounted" THEN gT ELSE << >>)
           /\ \A s \in SimIds : sims'[s].exists => sims[s].exists ) ]_vars

\* an empty node set arrived while a scene was displayed
C8_Witness ==
  /\ phase = "mounted"
  /\ props.graph = "empty"
  /\ svg.scene # NoSim
  /\ Len(svg.circles) = 3

\* C9 (as stated): after an initialisation with an input in which a link
\* names an id that is no node's, no circle, line or label exists.
C9_DanglingLinkLeavesNothing ==
  (phase # "unmounted" /\ Dangling(props.graph)) => NoElements(svg)

\* C9 (amended): after an initialisation with an input that has at least one
\* node and in which a link names an id that is no node's, the initialisation
\* has been rejected (the error left the effect) and no circle, line or label
\* exists.
C9_DanglingLinkRejected ==
  (phase # "unmounted" /\ Dangling(props.graph) /\ GraphNodes(props.graph) # << >>)
    => (phase = "crashed" /\ NoElements(svg) /\ svg.scene = NoSim)

\* the input with the dangling link was rejected after its first link had
\* been resolved
C9_Witness ==
  /\ phase = "crashed"
  /\ props.graph = "bad"
  /\ \E l \in DOMAIN linkObjs : l.own = "copy" /\ l.g = "bad" /\ linkObjs[l].target.resolved

\* C10: the scale factor of the zoom transform, and of the transform applied
\* to the root group, stays within [0.1, 8].
C10_ScaleWithinExtent ==
  /\ zoomT.k \in ScaleMin..ScaleMax
  /\ gT # << >> => gT[1].k \in ScaleMin..ScaleMax

\* a wheel event that asked for more than the maximum left the scale at 8
C10_Witness == gT # << >> /\ gT[1].k = ScaleMax /\ gT[1].x # 0

\* C11: while a drag gesture is in progress, the pin (fx, fy) of its node is
\* the position of the gesture's most recent drag event (at drag-start the
\* node's own position), whatever ticks, resize frames, hover events and
\* renders happened since that event.
C11_PinFollowsPointer ==
  \A d \in drags : nodeObjs[d.node].pin = d.at

\* a drag has been moved to a pointer position, the simulation has ticked
\* since (the node sits at its pin), a resize frame has re-centred it and the
\* pointer is over the node
C11_Witness ==
  \E d \in drags :
     /\ d.at \in Pointers
     /\ nodeObjs[d.node].pos = d.at
     /\ sims[d.sim].center = ForceCenter(<<1200, 400>>)
     /\ svg.over = 1
     /\ svg.circles[1].data = d.node

\* the stroke a circle is painted with: its own attribute, else the group's
EffectiveStroke(dom, i) ==
  IF dom.circles[i].stroke = "inherit" THEN NodeStroke(dom.dark) ELSE dom.circles[i].stroke

\* C12: whenever no node is hovered (initially, and after every mouseover /
\* mouseout pair on a node), every node's radius is its baseline formula value
\* and its stroke width 1.5, every link's stroke opacity is 0.4 and its stroke
\* width 1.5, and every edge label is hidden.
C12_UnhoverRestoresBaseline ==
  (phase = "mounted" /\ svg.over = 0) =>
    /\ \A i \in DOMAIN svg.circles :
          /\ svg.circles[i].r = 10 * Radius(NodeData(svg.circles[i].data))
          /\ svg.circles[i].sw = 15
    /\ \A k \in DOMAIN svg.lines : svg.lines[k].opacity = 4 /\ svg.lines[k].width = 15
    /\ \A k \in DOMAIN svg.linkLabels : svg.linkLabels[k].opacity = 0

\* the first node of the App's graph (val 5, radius 23) has been hovered and
\* left
C12_Witness ==
  /\ phase = "mounted"
  /\ svg.over = 0
  /\ svg.graph = "init"
  /\ svg.circles[1].stroke # "inherit"
  /\ svg.circles[1].r = 230

\* C13 (as stated): whenever no node is hovered, every node is painted with
\* the stroke colour it had before any hover (the node group's, in either
\* theme) and the tooltip is hidden.
C13_UnhoverRestoresStroke ==
  (phase = "mounted" /\ svg.over = 0) =>
    /\ \A i \in DOMAIN svg.circles : EffectiveStroke(svg, i) = NodeStroke(svg.dark)
    /\ svg.tip.opacity = 0

\* C14 (as stated): the position a mousemove gives the visible tooltip puts
\* its box inside the container: left >= 0, top >= 0, left + width <=
\* containerWidth, top + height <= containerHeight.
C14_TooltipInsideContainer ==
  (svg.tip.ptr # << >> /\ svg.tip.opacity = 10) =>
    /\ svg.tip.left >= 0
    /\ svg.tip.top >= 0
    /\ svg.tip.left + svg.tip.box[1] <= svg.tip.size[1]
    /\ svg.tip.top + svg.tip.box[2] <= svg.tip.size[2]

\* C15: after a mousemove at (x, y) in a container (w, h) the tooltip's left is
\* x + 15 unless x + 15 > w - 250, then x - 255, and its top is y + 15 unless
\* y + 15 > h - 120, then y - 130.
C15_TooltipPlacement ==
  svg.tip.ptr # << >> =>
    LET x == svg.tip.ptr[1]
        y == svg.tip.ptr[2]
        w == svg.tip.size[1]
        h == svg.tip.size[2]
    IN /\ svg.tip.left = (IF x + 15 > w - 250 THEN x - 255 ELSE x + 15)
       /\ svg.tip.top = (IF y + 15 > h - 120 THEN y - 130 ELSE y + 15)

\* the pointer at (containerWidth - 10, containerHeight - 10) of an 800 x 600
\* container: the tooltip is flipped both ways
C15_Witness ==
  /\ svg.tip.ptr = <<790, 590>>
  /\ svg.tip.size = <<800, 600>>
  /\ svg.tip.left = 535
  /\ svg.tip.top = 460

\* C16: when a queued frame callback runs for the observed size (w, h) while
\* a simulation is held by simulationRef, the viewBox becomes [0, 0, w, h], the
\* centre force of that simulation is at (w/2, h/2), and the simulation has
\* alpha 0.3 and a running timer.
C16_FrameRecentresAndReheats ==
  [][ \A f \in rafQueue :
        ( /\ rafQueue' = rafQueue \ {f}
          /\ animationFrameId' = animationFrameId
          /\ phase = "mounted" /\ phase' = "mounted"
          /\ props' = props
          /\ simulationRef # NoSim )
        => ( /\ svg'.viewBox = f.size
             /\ sims'[simulationRef].center = <<f.size[1] \div 2, f.size[2] \div 2>>
             /\ sims'[simulationRef].alpha = 3
             /\ sims'[simulationRef].running ) ]_vars

\* the container went from 800 x 600 to 1200 x 400 and the frame has run
C16_Witness ==
  /\ svg.scene # NoSim
  /\ svg.scene = simulationRef
  /\ rafQueue = {}
  /\ svg.viewBox = <<1200, 400>>
  /\ sims[simulationRef].center = <<600, 200>>
  /\ sims[simulationRef].alpha = 3
  /\ sims[simulationRef].running

\* C17: at most one frame callback is pending at any time, and the pending one
\* carries the size of the last notification.
C17_OnePendingFrame ==
  /\ Cardinality(rafQueue) <= 1
  /\ \A f \in rafQueue : f.id = animationFrameId /\ f.size = container

\* after an update for 1200 x 400 was applied, a notification for 800 x 600
\* has its callback pending
C17_Witness ==
  /\ \E f \in rafQueue : f.size = <<800, 600>> /\ f.id = animationFrameId
  /\ container = <<800, 600>>
  /\ svg.viewBox = <<1200, 400>>
  /\ simulationRef # NoSim
  /\ sims[simulationRef].center = <<600, 200>>

\* C18: after a double click on the background the transform applied to the
\* root group is the identity (scale 1, no translation), whatever zoom or pan
\* preceded it
C18_DblClickResetsZoom ==
  [][DblClick => (gT' = << >> \/ gT' = << Identity >>)]_vars

\* C19: a simulation's alphaTarget is 0.3 exactly while at least one drag
\* gesture on its nodes is in progress and 0 otherwise, and while one is in
\* progress the simulation's timer keeps running, unless the simulation was
\* stopped by the init effect's cleanup
C19_AlphaTargetFollowsDrags ==
  \A s \in SimIds :
    sims[s].exists =>
      /\ sims[s].alphaTarget = (IF Active(drags, s) > 0 THEN AlphaWarm ELSE 0)
      /\ (Active(drags, s) > 0 /\ ~sims[s].tornDown) =>
            sims[s].running

\* two gestures at once on a simulation that had cooled below the warm value
C19_Witness ==
  \E s \in SimIds :
    /\ sims[s].exists /\ ~sims[s].tornDown
    /\ Active(drags, s) = 2
    /\ sims[s].alphaTarget = AlphaWarm
    /\ sims[s].alpha = AlphaWarm
    /\ sims[s].running

\* a step other than a simulation's timer step: a render, an unmount, a
\* resize notification, a frame callback or a drag event
OtherStep == ~(\E s \in SimIds : TimerStep(s))

\* C20: if from some point on no drag is in progress and no resize
\* notification, frame callback or re-initialisation occurs, every simulation
\* cools below alphaMin after finitely many ticks and then stays stopped (one
\* that the init effect's cleanup stopped just stays stopped); and
\* a timer step leaves the timer running exactly when alpha is not below alphaMin
C20_CoolsToStop ==
  /\ \/ []<><<OtherStep>>_vars
     \/ []<>(drags # {})
     \/ <>[](\A s \in SimIds :
               ~sims[s].running /\ (sims[s].tornDown \/ sims[s].alpha < AlphaMin))
  /\ [][\A s \in SimIds :
          (TimerStep(s) /\ sims'[s].exists) =>
             /\ sims'[s].running = (sims'[s].alpha >= AlphaMin)
             /\ sims[s].tickOn => svg'.scene # s \/ svg'.positioned]_vars

\* a simulation that was warmed by a drag has cooled and stopped after the
\* drag ended
C20_Witness ==
  /\ drags = {}
  /\ rafQueue = {}
  /\ simulationRef # NoSim
  /\ sims[simulationRef].exists
  /\ ~sims[simulationRef].running
  /\ sims[simulationRef].alpha < AlphaMin
  /\ \E r \in Range(sims[simulationRef].nodes) : nodeObjs[r].pin # << >>

\* C21: in the plain source, right after a drag-end the dragged node's fx and
\* fy are null, and in any state with no drag in progress no node is pinned
C21_DragEndReleases ==
  /\ [](drags = {} => \A r \in DOMAIN nodeObjs : nodeObjs[r].pin = << >>)
  /\ [][\A d \in drags :
          (DragEnd(d) /\ d.node \in DOMAIN nodeObjs') => nodeObjs'[d.node].pin = << >>]_vars

\* a node that was dragged to a pointer position and let go: it has moved,
\* it is not pinned and no gesture is in progress
C21_Witness ==
  /\ variant = "plain"
  /\ phase = "mounted"
  /\ drags = {}
  /\ \E i \in DOMAIN svg.circles :
        /\ nodeObjs[svg.circles[i].data].pos \in Pointers
        /\ nodeObjs[svg.circles[i].data].pin = << >>

\* C22: in the themed source a drag-end leaves the dragged node's fx and fy at
\* the position of the gesture's last event, and afterwards no step changes
\* a node's pin except an event of a drag gesture on that node (a rebuild of
\* the scene makes new node objects)
C22_DragEndKeepsPin ==
  /\ [][\A d \in drags :
          (DragEnd(d) /\ d.node \in DOMAIN nodeObjs') => nodeObjs'[d.node].pin = d.at]_vars
  /\ [][\A r \in (DOMAIN nodeObjs) \cap (DOMAIN nodeObjs') :
          nodeObjs'[r].pin # nodeObjs[r].pin =>
             \E d \in drags' : d.node = r /\ nodeObjs'[r].pin = d.at]_vars

\* a node let go at a pointer position is still pinned there after the scene
\* was resized, zoomed and the node hovered and left
C22_Witness ==
  /\ variant = "themed"
  /\ phase = "mounted"
  /\ drags = {}
  /\ svg.over = 0
  /\ zoomT.k = ScaleMax
  /\ svg.viewBox = <<1200, 400>>
  /\ ~sims[svg.scene].running
  /\ svg.circles[1].stroke # "inherit"
  /\ nodeObjs[svg.circles[1].data].pin \in Pointers
  /\ nodeObjs[svg.circles[1].data].pos = nodeObjs[svg.circles[1].data].pin

\* C23: while a node is hovered, a line is highlighted (stroke opacity 1, width
\* 2.5, the highlight colour) and its link label visible exactly when the node
\* is the resolved source or target of the line's link; every other line is at
\* opacity 0.1 and width 1.5 in the link colour, with its label hidden
C23_HoverHighlightsItsLinks ==
  (phase = "mounted" /\ svg.over # 0) =>
    \A k \in DOMAIN svg.lines :
      LET n == svg.circles[svg.over].data
          l == linkObjs[svg.lines[k].data]
      IN IF l.source.ref = n \/ l.target.ref = n
           THEN /\ svg.lines[k].opacity = 10
                /\ svg.lines[k].width = 25
                /\ svg.lines[k].stroke = HoverStroke(svg.dark)
                /\ svg.linkLabels[k].opacity = 10
           ELSE /\ svg.lines[k].opacity = 1
                /\ svg.lines[k].width = 15
                /\ svg.lines[k].stroke = LinkColor(svg.dark)
                /\ svg.linkLabels[k].opacity = 0

\* the last node of the App's graph is hovered after its middle node was: the
\* line that points at it is highlighted and the other one dimmed
C23_Witness ==
  /\ props.graph = "init"
  /\ svg.over = 3
  /\ svg.circles[2].stroke # "inherit"
  /\ svg.lines[1].opacity = 1
  /\ svg.lines[2].opacity = 10
  /\ linkObjs[svg.lines[2].data].target.ref = svg.circles[3].data

\* C24: at rest (after the initial render and after un-hover) every node's
\* radius is val * 3 + 8 whenever val is present, 0 included, and 10 only when
\* val is absent (radii in tenths)
C24_RadiusFromVal ==
  (phase = "mounted" /\ svg.over = 0) =>
    \A i \in DOMAIN svg.circles :
      LET n == NodeData(svg.circles[i].data)
      IN svg.circles[i].r = 10 * (IF n.hasVal THEN n.val * 3 + 8 ELSE 10)

\* C25: whenever the tooltip is visible for a hovered node, a pointer position
\* over that node has been seen since the pointer entered it and left and top
\* are the placement computed from the last one (never the previous hover's
\* placement, never the initial 0, 0)
C25_VisibleTooltipIsPlaced ==
  (phase = "mounted" /\ svg.over # 0 /\ svg.tip.opacity = 10) =>
     /\ svg.tip.ptr # << >>
     /\ <<svg.tip.left, svg.tip.top>> = TooltipPos(svg.tip.ptr, svg.tip.size)

\* C26: once a scene has been built, the transform shown on the root group is
\* the zoom behaviour's current transform of the svg element (no transform
\* attribute shows the identity), after every initialisation and every zoom
\* or pan event
C26_GroupShowsZoomTransform ==
  (phase = "mounted" /\ svg.zoomOn) =>
     (IF gT = << >> THEN zoomT = Identity ELSE gT[1] = zoomT)

\* C27: after an initialisation was aborted by a link that names an unknown
\* node id, no simulation has a running timer, and simulationRef is null or
\* the simulation of the elements that are rendered
C27_AbortLeavesNoSimulation ==
  phase = "crashed" =>
     /\ \A s \in SimIds : ~sims[s].running
     /\ simulationRef = NoSim \/ simulationRef = svg.scene

\* C28: at most one prediction request is in flight, and loading is true
\* exactly while a request is pending
C28_OneRequestInFlight ==
  /\ Cardinality(requests) <= 1
  /\ loading = (requests # {})

\* C29: activeSessionId is null or the id of exactly one session of the list
C29_ActiveIsOneSession ==
  activeSessionId = 0
    \/ Cardinality({ k \in DOMAIN sessions : sessions[k].id = activeSessionId }) = 1

\* C30: a selected node is a node of the graph on display (the active
\* session's result, or the initial graph when there is none)
C30_SelectedNodeIsDisplayed ==
  selectedNode # NoNode => selectedNode.result = Displayed(sessions, activeSessionId)

=============================================================================
